---------------------------- MODULE Spec2Model ----------------------------
(***************************************************************************)
(* A model of boss_crawl.py: one run of main() driving one                 *)
(* BossJobDetailCrawler (start, ensure_logged_in, extract_job_details,     *)
(* close) against a page driver whose every call may succeed or raise.     *)
(*                                                                         *)
(* Text is modelled as a sequence of one-character strings, so that        *)
(* str.strip() is computed and not assumed.  A dict is a function whose    *)
(* domain is its set of keys.                                              *)
(***************************************************************************)
EXTENDS Naturals, Sequences, FiniteSets, TLC

(***************************************************************************)
(* Bounds of the model.                                                    *)
(***************************************************************************)
MaxTargets == 3      \* longest job_links list explored

MaxBadFields == 2    \* selectors of one page whose read deviates

MaxTags == 2         \* '.job-tags span' elements on one page

MaxCloses == 7       \* calls of close() on one crawler object

(***************************************************************************)
(* Program constants.                                                      *)
(***************************************************************************)
MaxPollRounds == 60  \* for _ in range(60)

NumIndicators == 3   \* len(login_indicators)

(***************************************************************************)
(* Text.                                                                   *)
(***************************************************************************)
IsSpace(c) == c = " "

RECURSIVE LStrip(_)
LStrip(s) ==
    IF s = <<>> THEN <<>>
    ELSE IF IsSpace(Head(s)) THEN LStrip(Tail(s))
    ELSE s

RECURSIVE RStrip(_)
RStrip(s) ==
    IF s = <<>> THEN <<>>
    ELSE IF IsSpace(s[Len(s)]) THEN RStrip(SubSeq(s, 1, Len(s) - 1))
    ELSE s

\* str.strip()
Strip(s) == RStrip(LStrip(s))

\* the readings of datetime.now() told apart
Instants == {1, 2}

\* datetime.now().isoformat(): a date, the letter T, a time
IsoFormat(t) == <<"d", "T">> \o [k \in 1..t |-> "0"]

\* str.lower() of the configured output format
Lower(s) ==
    CASE s = "JSON" -> "json"
      [] s = "CSV" -> "csv"
      [] OTHER -> s

(***************************************************************************)
(* The inputs: the parsed job_links.yaml.                                  *)
(***************************************************************************)
Urls == {"u1", "u2"}

Formats == {"json", "CSV", "xml"}

TargetLists == UNION {[1..n -> Urls] : n \in 0..MaxTargets}

(***************************************************************************)
(* The page driver's answers.                                              *)
(***************************************************************************)
\* what page.query_selector(indicator) does in ensure_logged_in
ProbeOutcomes == {"match", "absent", "error"}

\* the message of a playwright error raised by page.goto
DriverErrors == {<<"n", "e", "t">>}

\* str(e)
Str(e) == e

\* what element.text_content() returns (None, or a text) or that it raises
NoneText == [kind |-> "none"]

TextError == [kind |-> "text_error"]

Text(s) == [kind |-> "text", text |-> s]

\* what page.query_selector(selector) does in _extract_text
QueryError == [kind |-> "query_error"]

Missing == [kind |-> "absent"]

Good == Text(<<"v">>)

BadOutcomes ==
    {QueryError, Missing, NoneText, TextError,
     Text(<<>>), Text(<<" ">>), Text(<<" ", "w", " ">>)}

Selectors ==
    {"title", "salary", "city", "experience", "education", "company",
     "company_type", "company_size", "job_description"}

ContentFields == Selectors \cup {"tags"}


\* what tag_element.text_content() does for one '.job-tags span' element
TagOutcomes ==
    {NoneText, TextError, Text(<<>>), Text(<<" ">>), Text(<<"a">>),
     Text(<<" ", "b", " ">>)}

TagQueryError == [kind |-> "query_error"]

TagElements(es) == [kind |-> "elements", elems |-> es]

TagAnswers ==
    {TagQueryError}
        \cup {TagElements(es) : es \in UNION {[1..n -> TagOutcomes] : n \in 0..MaxTags}}

\* one answer per selector, at most MaxBadFields of them deviating from Good
FieldAnswers ==
    {[s \in Selectors |-> IF s \in S THEN b ELSE Good] :
        S \in {T \in SUBSET Selectors : Cardinality(T) <= MaxBadFields},
        b \in BadOutcomes}

\* a page: whether '.job-banner' shows within the timeout, and the answers
Page(l, f, t) == [landmark |-> l, fields |-> f, tags |-> t]

HealthyPage ==
    Page(TRUE, [s \in Selectors |-> Good], TagElements(<<Text(<<"a">>)>>))

BarePage == Page(FALSE, [s \in Selectors |-> Missing], TagQueryError)

\* the pages served during a whole run
RunPages == {HealthyPage, BarePage}

\* the pages served to a single extraction
AllPages ==
    {Page(l, f, TagElements(<<Text(<<"a">>)>>)) : l \in BOOLEAN, f \in FieldAnswers}
        \cup {Page(TRUE, [s \in Selectors |-> Good], t) : t \in TagAnswers}
        \cup RunPages

\* the pages a site of kind s may serve
PagesOf(s) == IF s = "any" THEN AllPages ELSE RunPages

(***************************************************************************)
(* BossJobDetailCrawler: the pure parts.                                   *)
(***************************************************************************)
\* _extract_text: the stripped text, "" when the query or the read raises,
\* the element is absent or its text is None or empty
ExtractText(o) ==
    IF o.kind = "text"
    THEN IF o.text # <<>> THEN Strip(o.text) ELSE <<>>
    ELSE <<>>

\* variant: a tag text already collected is not collected again
RECURSIVE CollectTagsDeduped(_, _)
CollectTagsDeduped(es, tags) ==
    IF es = <<>> THEN tags
    ELSE LET e == Head(es) IN
         IF e.kind = "text_error" THEN tags
         ELSE IF /\ e.kind = "text" /\ e.text # <<>> /\ Strip(e.text) # <<>>
                 /\ \A k \in 1..Len(tags) : tags[k] # Strip(e.text)
         THEN CollectTagsDeduped(Tail(es), Append(tags, Strip(e.text)))
         ELSE CollectTagsDeduped(Tail(es), tags)

\* the for loop of _extract_tags from the elements es on, tags collected so
\* far; a read that raises leaves the loop through the except clause
RECURSIVE CollectTags(_, _)
CollectTags(es, tags) ==
    IF es = <<>> THEN tags
    ELSE LET e == Head(es) IN
         IF e.kind = "text_error" THEN tags
         ELSE IF e.kind = "text" /\ e.text # <<>> /\ Strip(e.text) # <<>>
         THEN CollectTags(Tail(es), Append(tags, Strip(e.text)))
         ELSE CollectTags(Tail(es), tags)

\* _extract_tags
ExtractTags(t) ==
    IF t.kind = "query_error" THEN <<>> ELSE CollectTags(t.elems, <<>>)

\* variant: the field reads share one try block, so that one read that
\* finds no text empties every field
SuccessRecordShared(job_url, p, t) ==
    LET bad == \E s \in Selectors : p.fields[s].kind # "text"
        read(s) == IF bad THEN <<>> ELSE ExtractText(p.fields[s])
        base ==
            [url |-> job_url,
             title |-> read("title"),
             salary |-> read("salary"),
             city |-> read("city"),
             experience |-> read("experience"),
             education |-> read("education"),
             company |-> read("company"),
             company_type |-> read("company_type"),
             company_size |-> read("company_size"),
             job_description |-> read("job_description"),
             extracted_at |-> IsoFormat(t)]
        tags == ExtractTags(p.tags)
    IN  IF tags # <<>> THEN base @@ [tags |-> tags] ELSE base

\* the dict built on the try path of extract_job_details
SuccessRecord(job_url, p, t) ==
    LET base ==
            [url |-> job_url,
             title |-> ExtractText(p.fields["title"]),
             salary |-> ExtractText(p.fields["salary"]),
             city |-> ExtractText(p.fields["city"]),
             experience |-> ExtractText(p.fields["experience"]),
             education |-> ExtractText(p.fields["education"]),
             company |-> ExtractText(p.fields["company"]),
             company_type |-> ExtractText(p.fields["company_type"]),
             company_size |-> ExtractText(p.fields["company_size"]),
             job_description |-> ExtractText(p.fields["job_description"]),
             extracted_at |-> IsoFormat(t)]
        tags == ExtractTags(p.tags)
    IN  IF tags # <<>> THEN base @@ [tags |-> tags] ELSE base

\* variant: the except path keeps a content field
FailedRecordWithTitle(job_url, e, t) ==
    [url |-> job_url, title |-> <<>>, error |-> Str(e),
     extracted_at |-> IsoFormat(t)]

\* the dict returned from the except path of extract_job_details
FailedRecord(job_url, e, t) ==
    [url |-> job_url, error |-> Str(e), extracted_at |-> IsoFormat(t)]

\* variant: "except: break", a probe that raises ends the pass
RECURSIVE ProbeFromStopsOnError(_, _)
ProbeFromStopsOnError(out, k) ==
    IF k > NumIndicators THEN [found |-> FALSE, probed |-> NumIndicators]
    ELSE IF out[k] = "match" THEN [found |-> TRUE, probed |-> k]
    ELSE IF out[k] = "error" THEN [found |-> FALSE, probed |-> k]
    ELSE ProbeFromStopsOnError(out, k + 1)

\* one pass of "for indicator in login_indicators" from indicator k on, out[k]
\* being what the probe of indicator k does: a match ends the pass, an
\* error or an absent element moves on to the next indicator
RECURSIVE ProbeFrom(_, _)
ProbeFrom(out, k) ==
    IF k > NumIndicators THEN [found |-> FALSE, probed |-> NumIndicators]
    ELSE IF out[k] = "match" THEN [found |-> TRUE, probed |-> k]
    ELSE ProbeFrom(out, k + 1)

ProbeRound(out) == [outcomes |-> out] @@ ProbeFrom(out, 1)

\* variant: range(61)
LoopEndsLate(n) == n > MaxPollRounds

\* range(60) is exhausted after n rounds
LoopEnds(n) == n >= MaxPollRounds

\* variant: a loop that does not count its rounds
NextPollStuck(n) == n

\* the for loop takes the next value of range(60)
NextPoll(n) == n + 1

\* variant: the result of ensure_logged_in is not looked at
LoginFailedNever(res) == FALSE

\* "if not await crawler.ensure_logged_in()"
LoginFailed(res) == res # "True"

(***************************************************************************)
(* The state of one run.                                                   *)
(***************************************************************************)
VARIABLES
    config_exists,    \* os.path.exists(config_path)
    job_links,        \* config['job_links']
    format_cfg,       \* config['output']['format']
    site,             \* which pages the site may serve: see PagesOf
    pc,               \* where main() is; where it stopped once exit is set
    exit,             \* "running", or how the process ended
    playwright,       \* crawler.playwright
    browser,          \* crawler.browser
    page,             \* crawler.page
    acquired,         \* drivers started and browsing contexts launched
    close_calls,      \* calls of crawler.close()
    released,         \* calls of browser.close() and of playwright.stop()
    login_result,     \* what ensure_logged_in returned
    polls,            \* rounds of "for _ in range(60)" begun
    round,            \* the last pass over login_indicators
    i,                \* enumerate(job_links, 1)
    job_details,      \* the record extract_job_details returned
    all_job_details,  \* the result list
    attempt,          \* what the driver did during the last extraction
    navigated,        \* the job urls page.goto was called with
    screenshots,      \* calls of page.screenshot
    delays,           \* calls of asyncio.sleep(2)
    files,            \* the output files written
    summary           \* the counts printed at the end

vars ==
    <<config_exists, job_links, format_cfg, site, pc, exit, playwright,
      browser, page, acquired, close_calls, released, login_result, polls, round, i,
      job_details, all_job_details, attempt, navigated, screenshots, delays,
      files, summary>>

input == <<config_exists, job_links, format_cfg, site>>

session == <<playwright, browser, page, acquired>>

login == <<login_result, polls, round>>

loop == <<i, job_details, all_job_details>>

driver == <<attempt, navigated, screenshots>>

output == <<files, summary>>

Absent == [absent |-> TRUE]

NoRound == [outcomes |-> <<>>, found |-> FALSE, probed |-> 0]

NoPage == [none |-> TRUE]

NoAttempt == [nav |-> "none", err |-> <<>>, shot |-> "none", page |-> NoPage]

NoSummary == [printed |-> FALSE]

InitRun ==
    /\ pc = "config"
    /\ exit = "running"
    /\ playwright = "None"
    /\ browser = "None"
    /\ page = "None"
    /\ acquired = [context |-> 0, driver |-> 0]
    /\ close_calls = 0
    /\ released = [context |-> 0, driver |-> 0]
    /\ login_result = "pending"
    /\ polls = 0
    /\ round = NoRound
    /\ i = 0
    /\ job_details = Absent
    /\ all_job_details = <<>>
    /\ attempt = NoAttempt
    /\ navigated = <<>>
    /\ screenshots = 0
    /\ delays = 0
    /\ files = <<>>
    /\ summary = NoSummary

\* a whole run over any list of up to MaxTargets targets
Init ==
    /\ config_exists \in BOOLEAN
    /\ job_links \in TargetLists
    /\ format_cfg \in Formats
    /\ site = "run"
    /\ InitRun

\* a run over one target, served any page
InitExtract ==
    /\ config_exists = TRUE
    /\ job_links \in {<<u>> : u \in Urls}
    /\ format_cfg \in Formats
    /\ site = "any"
    /\ InitRun

\* a run over at most one target
InitLogin ==
    /\ config_exists \in BOOLEAN
    /\ job_links \in {l \in TargetLists : Len(l) <= 1}
    /\ format_cfg \in Formats
    /\ site = "run"
    /\ InitRun

(***************************************************************************)
(* Ways out of main().                                                     *)
(***************************************************************************)
\* the frames of main() and of what it called are dropped
Unwind ==
    /\ polls' = 0
    /\ round' = NoRound
    /\ i' = 0
    /\ job_details' = Absent
    /\ all_job_details' = <<>>

\* an exception leaves main(): nothing catches it before asyncio.run
Raise ==
    /\ exit' = "raised"
    /\ Unwind
    /\ UNCHANGED <<input, pc, close_calls, released, login_result, delays, output>>

\* crawler.close()
CloseSession ==
    /\ close_calls' = close_calls + 1
    /\ released' =
        [context |-> released.context + (IF browser # "None" THEN 1 ELSE 0),
         driver |-> released.driver + (IF playwright # "None" THEN 1 ELSE 0)]
    /\ UNCHANGED session

(***************************************************************************)
(* main(), step by step.                                                   *)
(***************************************************************************)
output_format == Lower(format_cfg)

\* variant: the check for an empty job_links is missing
NoLinksNever(links) == FALSE

\* "if not job_links"
NoLinks(links) == links = <<>>

\* main() up to os.makedirs: without a config file or without any job link
\* it returns at once
ReadConfig ==
    /\ exit = "running"
    /\ pc = "config"
    /\ IF ~config_exists \/ NoLinks(job_links)
       THEN /\ pc' = "done"
            /\ exit' = "returned"
       ELSE /\ pc' = "start"
            /\ exit' = exit
    /\ UNCHANGED <<input, session, close_calls, released, login, loop, driver,
                   delays, output>>

StartOutcomes == {"ok", "no_driver", "no_context", "no_page"}

\* start() on a fresh crawler: what it has acquired and stored when it
\* returns (o = "ok") or when one of its awaits raises
StartEffect(o) ==
    /\ playwright' = IF o = "no_driver" THEN "None" ELSE "obj"
    /\ browser' = IF o \in {"no_driver", "no_context"} THEN "None" ELSE "obj"
    /\ page' = IF o = "ok" THEN "obj" ELSE "None"
    /\ acquired' =
        [context |-> acquired.context
                        + (IF o \in {"no_driver", "no_context"} THEN 0 ELSE 1),
         driver |-> acquired.driver + (IF o = "no_driver" THEN 0 ELSE 1)]

\* variant: a failure of start() is swallowed
StartRaisesNever(o) == FALSE

\* an await of start() raised: the exception leaves start() and main()
StartRaises(o) == o # "ok"

\* crawler = BossJobDetailCrawler(); await crawler.start()
Start ==
    /\ exit = "running"
    /\ pc = "start"
    /\ \E o \in StartOutcomes :
        /\ StartEffect(o)
        /\ IF ~StartRaises(o)
           THEN /\ pc' = "login_goto"
                /\ UNCHANGED <<input, exit, close_calls, released, login, loop,
                               delays, output>>
           ELSE Raise
    /\ UNCHANGED driver

\* ensure_logged_in: page.goto of the home page and the sleep after it
LoginGoto ==
    /\ exit = "running"
    /\ pc = "login_goto"
    /\ \/ /\ pc' = "login_probe"
          /\ UNCHANGED <<input, exit, close_calls, released, login, loop,
                         delays, output>>
       \/ Raise
    /\ UNCHANGED <<session, driver>>

Rounds == [1..NumIndicators -> ProbeOutcomes]

\* ensure_logged_in: the first pass over login_indicators, and "return True"
\* when it found one
LoginProbe ==
    /\ exit = "running"
    /\ pc = "login_probe"
    /\ \E out \in Rounds :
        /\ round' = ProbeRound(out)
        /\ IF round'.found
           THEN /\ login_result' = "True"
                /\ pc' = "login_ret"
           ELSE /\ login_result' = login_result
                /\ pc' = "login_input"
    /\ UNCHANGED <<input, exit, session, close_calls, released, polls, loop,
                   driver, delays, output>>

\* input("..."): the operator presses Enter
OperatorEnter ==
    /\ exit = "running"
    /\ pc = "login_input"
    /\ pc' = "poll"
    /\ UNCHANGED <<input, exit, session, close_calls, released, login, loop,
                   driver, delays, output>>

\* input("..."): standard input is at its end, EOFError
InputEOF ==
    /\ exit = "running"
    /\ pc = "login_input"
    /\ Raise
    /\ UNCHANGED <<session, driver>>

\* ensure_logged_in: one round of the polling loop (the sleep, the pass over
\* login_indicators), with "return True" on a match and "return False" when
\* the range is exhausted
PollRound ==
    /\ exit = "running"
    /\ pc = "poll"
    /\ ~LoopEnds(polls)
    /\ \E out \in Rounds :
        /\ round' = ProbeRound(out)
        /\ polls' = NextPoll(polls)
        /\ IF round'.found
           THEN /\ login_result' = "True"
                /\ pc' = "login_ret"
           ELSE IF LoopEnds(polls')
           THEN /\ login_result' = "False"
                /\ pc' = "login_ret"
           ELSE /\ login_result' = login_result
                /\ pc' = "poll"
    /\ UNCHANGED <<input, exit, session, close_calls, released, loop, driver,
                   delays, output>>

\* main(): "if not await crawler.ensure_logged_in()", and on True the set-up
\* of the loop
AfterLogin ==
    /\ exit = "running"
    /\ pc = "login_ret"
    /\ polls' = 0
    /\ round' = NoRound
    /\ IF LoginFailed(login_result)
       THEN /\ pc' = "close_timeout"
            /\ UNCHANGED loop
       ELSE /\ all_job_details' = <<>>
            /\ job_details' = job_details
            /\ IF job_links # <<>>
               THEN i' = 1 /\ pc' = "extract"
               ELSE i' = 0 /\ pc' = "write"
    /\ UNCHANGED <<input, exit, session, close_calls, released, login_result,
                   driver, delays, output>>

\* main(): "await crawler.close(); return" after a login timeout
CloseOnTimeout ==
    /\ exit = "running"
    /\ pc = "close_timeout"
    /\ CloseSession
    /\ pc' = "done"
    /\ exit' = "returned"
    /\ UNCHANGED <<input, login, loop, driver, delays, output>>

\* variant: a failed wait for '.job-banner' is not caught
LandmarkAbortsWhenMissing(p) == ~p.landmark

\* whether the wait for '.job-banner' on page p ends the try block: its
\* exception is caught by the inner "except:" and only logged
LandmarkAborts(p) == FALSE

\* what sends extract_job_details to its except clause: the navigation
\* raising, or a page served on which the try block is left
Failures(pages) ==
    {[nav |-> "error", page |-> NoPage]}
        \cup {[nav |-> "ok", page |-> p] : p \in {q \in pages : LandmarkAborts(q)}}

\* await crawler.extract_job_details(job_url): the navigation, then the
\* record of the page; or, the navigation raising, the screenshot and the
\* failed record; or, the screenshot raising too, the exception of the
\* screenshot leaving the except clause
ExtractJobDetails ==
    /\ exit = "running"
    /\ pc = "extract"
    /\ LET job_url == job_links[i] IN
        /\ navigated' = Append(navigated, job_url)
        /\ \/ \E p \in PagesOf(site), t \in Instants :
                /\ ~LandmarkAborts(p)
                /\ job_details' = SuccessRecord(job_url, p, t)
                /\ attempt' = [nav |-> "ok", err |-> <<>>, shot |-> "none",
                               page |-> p]
                /\ screenshots' = screenshots
                /\ pc' = "append"
                /\ UNCHANGED <<input, exit, close_calls, released, login, i,
                               all_job_details, delays, output>>
           \/ \E c \in Failures(PagesOf(site)), e \in DriverErrors, t \in Instants :
                /\ job_details' = FailedRecord(job_url, e, t)
                /\ attempt' = [nav |-> c.nav, err |-> e, shot |-> "ok",
                               page |-> c.page]
                /\ screenshots' = screenshots + 1
                /\ pc' = "append"
                /\ UNCHANGED <<input, exit, close_calls, released, login, i,
                               all_job_details, delays, output>>
           \/ \E c \in Failures(PagesOf(site)), e \in DriverErrors :
                /\ attempt' = [nav |-> c.nav, err |-> e, shot |-> "error",
                               page |-> c.page]
                /\ screenshots' = screenshots + 1
                /\ Raise
    /\ UNCHANGED session

\* variant: all_job_details.insert(0, job_details)
PrependTo(list, rec) == <<rec>> \o list

\* all_job_details.append(job_details)
AppendTo(list, rec) == Append(list, rec)

\* main(): the append and the progress lines
AppendRecord ==
    /\ exit = "running"
    /\ pc = "append"
    /\ all_job_details' = AppendTo(all_job_details, job_details)
    /\ job_details' = Absent
    /\ attempt' = NoAttempt
    /\ pc' = "sleep"
    /\ UNCHANGED <<input, exit, session, close_calls, released, login, i,
                   navigated, screenshots, delays, output>>

\* variant: no delay after the last target
PauseBetween(k, n) == IF k < n THEN 1 ELSE 0

\* the sleeps after target k of n: asyncio.sleep(2) ends every iteration
Pause(k, n) == 1

\* main(): await asyncio.sleep(2), then the next target or the end of the loop
PacingDelay ==
    /\ exit = "running"
    /\ pc = "sleep"
    /\ delays' = delays + Pause(i, Len(job_links))
    /\ i' = i + 1
    /\ pc' = IF i < Len(job_links) THEN "extract" ELSE "write"
    /\ UNCHANGED <<input, exit, session, close_calls, released, login,
                   job_details, all_job_details, driver, output>>

\* every field name, in the order sorted() gives
FieldOrder ==
    <<"city", "company", "company_size", "company_type", "education", "error",
      "experience", "extracted_at", "job_description", "salary", "tags",
      "title", "url">>

\* variant: the header is taken from the first record alone
FieldnamesOfFirst(records) ==
    SelectSeq(FieldOrder,
              LAMBDA f : records # <<>> /\ f \in DOMAIN records[1])

\* sorted(fieldnames), fieldnames the union of the records' keys
Fieldnames(records) ==
    SelectSeq(FieldOrder,
              LAMBDA f : \E k \in 1..Len(records) : f \in DOMAIN records[k])

\* json.dump(all_job_details, f)
JsonFile(records) == [kind |-> "json", records |-> records]

\* csv.DictWriter: the header, and a row per record with '' for a missing key
CsvFile(records) ==
    LET header == Fieldnames(records) IN
    [kind |-> "csv",
     header |-> header,
     rows |-> [k \in 1..Len(records) |->
                [c \in 1..Len(header) |->
                    IF header[c] \in DOMAIN records[k]
                    THEN records[k][header[c]]
                    ELSE <<>>]]]

\* writer.writerow(job) raises ValueError for a key that is no fieldname
RowFails(header, job) ==
    \E f \in DOMAIN job : \A c \in 1..Len(header) : header[c] # f

\* the csv export meets a row it cannot write
CsvFails(records) ==
    \E k \in 1..Len(records) : RowFails(Fieldnames(records), records[k])

\* main(): the output file, for the formats 'json' and 'csv'; opening or
\* writing the file may raise
WriteResults ==
    /\ exit = "running"
    /\ pc = "write"
    /\ \/ /\ ~(output_format = "csv" /\ CsvFails(all_job_details))
          /\ files' =
                IF output_format = "json"
                THEN Append(files, JsonFile(all_job_details))
                ELSE IF output_format = "csv"
                THEN Append(files, CsvFile(all_job_details))
                ELSE files
          /\ pc' = "summary"
          /\ UNCHANGED <<input, exit, close_calls, released, login, loop,
                         delays, summary>>
       \/ /\ output_format \in {"json", "csv"}
          /\ Raise
    /\ UNCHANGED <<session, driver>>

\* variant: the records with an error are the ones counted
SuccessCountInverted(records) ==
    Cardinality({k \in 1..Len(records) : "error" \in DOMAIN records[k]})

\* sum(1 for job in all_job_details if 'error' not in job)
SuccessCount(records) ==
    Cardinality({k \in 1..Len(records) : "error" \notin DOMAIN records[k]})

\* main(): the counts
PrintSummary ==
    /\ exit = "running"
    /\ pc = "summary"
    /\ summary' =
        [printed |-> TRUE,
         success |-> SuccessCount(all_job_details),
         failed |-> Len(all_job_details) - SuccessCount(all_job_details)]
    /\ pc' = "close"
    /\ UNCHANGED <<input, exit, session, close_calls, released, login, loop,
                   driver, delays, files>>

\* main(): await crawler.close() at the end
CloseAtEnd ==
    /\ exit = "running"
    /\ pc = "close"
    /\ CloseSession
    /\ pc' = "done"
    /\ exit' = "returned"
    /\ UNCHANGED <<input, login, loop, driver, delays, output>>

\* KeyboardInterrupt, caught only around asyncio.run(main())
Interrupt ==
    /\ exit = "running"
    /\ exit' = "interrupted"
    /\ Unwind
    /\ UNCHANGED <<input, pc, session, close_calls, released, login_result,
                   driver, delays, output>>

\* a caller of the class, not main(): start() on a fresh crawler, its
\* exception caught by the caller
ApiStart ==
    /\ pc = "config"
    /\ pc' = "api"
    /\ \E o \in StartOutcomes : StartEffect(o)
    /\ UNCHANGED <<input, exit, close_calls, released, login, loop, driver,
                   delays, output>>

\* a caller of the class, not main(): close(), in any state of the crawler
ApiClose ==
    /\ pc \in {"config", "api"}
    /\ close_calls < MaxCloses
    /\ CloseSession
    /\ UNCHANGED <<input, pc, exit, login, loop, driver, delays, output>>

\* the steps the program takes by itself
Step ==
    \/ ReadConfig
    \/ Start
    \/ LoginGoto
    \/ LoginProbe
    \/ PollRound
    \/ AfterLogin
    \/ CloseOnTimeout
    \/ ExtractJobDetails
    \/ AppendRecord
    \/ PacingDelay
    \/ WriteResults
    \/ PrintSummary
    \/ CloseAtEnd

Next ==
    \/ Step
    \/ OperatorEnter
    \/ InputEOF
    \/ Interrupt

Spec == Init /\ [][Next]_vars

SpecExtract == InitExtract /\ [][Next]_vars

\* a crawler object in the hands of a caller that starts it at most once
\* and closes it any number of times
InitApi ==
    /\ config_exists = TRUE
    /\ job_links = <<>>
    /\ format_cfg = "json"
    /\ site = "run"
    /\ InitRun

NextApi ==
    \/ ApiStart
    \/ ApiClose

SpecApi == InitApi /\ [][NextApi]_vars

\* the event loop runs every step of the program that can run; the operator
\* and the interrupt are under no obligation
FairSpec == InitLogin /\ [][Next]_vars /\ WF_vars(Step)

(***************************************************************************)
(* Properties.                                                             *)
(***************************************************************************)
Running == exit = "running"

\* the result list is the records of the first k targets, in input order
RecordsOfFirst(k) ==
    /\ Len(all_job_details) = k
    /\ \A j \in 1..k : all_job_details[j].url = job_links[j]

\* C1: inside the loop the result list holds exactly the records of the
\* targets already processed, in input order, and at the write step (and
\* after it) it holds one record per target, record j carrying the url of
\* target j.
C1_OrderPreserved ==
    Running =>
        /\ pc = "extract" => RecordsOfFirst(i - 1)
        /\ pc = "append" => RecordsOfFirst(i - 1) /\ job_details.url = job_links[i]
        /\ pc = "sleep" => RecordsOfFirst(i)
        /\ pc \in {"write", "summary", "close"} => RecordsOfFirst(Len(job_links))

C1_Witness ==
    /\ Running
    /\ pc = "write"
    /\ job_links = <<"u1", "u2", "u1">>
    /\ "error" \in DOMAIN all_job_details[2]

\* C2 (as claimed): a target whose navigation raises never aborts the run;
\* its failed record is returned and the run goes on.
C2_FailedTargetNeverAborts ==
    attempt.nav = "error" => exit # "raised"

\* C3 (as claimed): once start() has succeeded, no run ends without close()
\* having been executed.
C3_ClosedOnEveryExit ==
    (~Running /\ page = "obj") => close_calls >= 1

\* C4: when the 60 rounds end without a match ensure_logged_in returns
\* False; after that no target is navigated to or extracted and no output
\* is written, and the run returns with close() executed once.
C4_LoginTimeout ==
    /\ (Running /\ pc = "login_ret" /\ polls = MaxPollRounds /\ ~round.found)
            => login_result = "False"
    /\ login_result = "False" =>
            /\ pc \in {"login_ret", "close_timeout", "done"}
            /\ navigated = <<>>
            /\ screenshots = 0
            /\ all_job_details = <<>>
            /\ files = <<>>
            /\ ~summary.printed
    /\ (login_result = "False" /\ exit = "returned") =>
            /\ close_calls = 1
            /\ released = [context |-> 1, driver |-> 1]

C4_Witness ==
    /\ login_result = "False"
    /\ exit = "returned"
    /\ close_calls = 1
    /\ navigated = <<>>

\* C5 (as claimed): when the navigation raises and the screenshot raises
\* too, extract_job_details still returns the failed record carrying the
\* description of the navigation's error.
C5_ScreenshotFailureIsolated ==
    (attempt.shot = "error" /\ exit # "interrupted") =>
        /\ Running
        /\ pc = "append"
        /\ "error" \in DOMAIN job_details
        /\ job_details.error = Str(attempt.err)

\* C6 (as claimed): a run over an empty target list ends with one output
\* file of zero records written and a summary of 0 successes, 0 failures.
C6_EmptyListStillWrites ==
    (config_exists /\ job_links = <<>> /\ exit = "returned") =>
        /\ Len(files) = 1
        /\ summary.printed
        /\ summary.success = 0
        /\ summary.failed = 0

\* C6 (amended): a run over an empty target list ends at once, before the
\* session is started: no login, no navigation, no output file, no summary,
\* no close.
C6_EmptyListIsNoOp ==
    (config_exists /\ job_links = <<>>) =>
        /\ pc \in {"config", "done"}
        /\ exit # "raised"
        /\ playwright = "None"
        /\ browser = "None"
        /\ login_result = "pending"
        /\ navigated = <<>>
        /\ files = <<>>
        /\ ~summary.printed
        /\ close_calls = 0

C6_Witness ==
    /\ config_exists
    /\ job_links = <<>>
    /\ exit = "returned"
    /\ pc = "done"

\* a record is either failed (url, error, timestamp and nothing else, the
\* error not empty) or carries no error
WellFormed(r) ==
    /\ "url" \in DOMAIN r
    /\ r.url \in Urls
    /\ "extracted_at" \in DOMAIN r
    /\ r.extracted_at # <<>>
    /\ "error" \in DOMAIN r =>
            /\ DOMAIN r = {"url", "error", "extracted_at"}
            /\ r.error # <<>>
    /\ DOMAIN r \cap ContentFields # {} => "error" \notin DOMAIN r

\* C7: every record returned by extract_job_details and every record of
\* the result list is either successful or failed, never a mix.
C7_RecordsNeverMixed ==
    /\ "absent" \notin DOMAIN job_details => WellFormed(job_details)
    /\ \A k \in 1..Len(all_job_details) : WellFormed(all_job_details[k])

C7_Witness ==
    /\ Len(all_job_details) = 3
    /\ "error" \in DOMAIN all_job_details[2]
    /\ "title" \in DOMAIN all_job_details[1]
    /\ "tags" \in DOMAIN all_job_details[3]

\* C8: a pass over the indicators finds a match exactly when some indicator
\* matches, whatever the probes before it did; a pass without a match has
\* probed every indicator, errors included; a match makes ensure_logged_in
\* return True, and no probe ends the run with an exception.
C8_ProbeErrorsAbsorbed ==
    /\ round # NoRound =>
            /\ round.found <=> \E k \in 1..NumIndicators : round.outcomes[k] = "match"
            /\ ~round.found => round.probed = NumIndicators
            /\ round.found =>
                    /\ round.outcomes[round.probed] = "match"
                    /\ \A j \in 1..(round.probed - 1) : round.outcomes[j] # "match"
            /\ round.found <=> (pc = "login_ret" /\ login_result = "True")
    /\ exit = "raised" => pc \notin {"login_probe", "poll"}

C8_Witness ==
    /\ round.outcomes = <<"error", "error", "match">>
    /\ round.probed = NumIndicators
    /\ login_result = "True"
    /\ polls > 0

\* C9: there are never more than 60 polling rounds; polling goes on only
\* while fewer than 60 rounds are done and the last one found nothing;
\* ensure_logged_in returns True from a round exactly when that round found
\* an indicator, and False exactly when round 60 found none.
C9_AtMost60Rounds ==
    /\ polls <= 60
    /\ (Running /\ pc = "poll") => polls < 60 /\ ~round.found
    /\ (Running /\ pc = "login_ret" /\ polls > 0) =>
            /\ login_result = "True" <=> round.found
            /\ login_result = "False" <=> (polls = 60 /\ ~round.found)

C9_Witness ==
    /\ pc = "login_ret"
    /\ polls = 60
    /\ login_result = "True"

\* C10 (as claimed): once the manual-login wait is entered,
\* ensure_logged_in eventually returns (or the run has ended).
C10_WaitAlwaysReturns ==
    (Running /\ pc = "login_input") ~> (login_result # "pending" \/ ~Running)

\* C10 (amended): once the operator has answered the prompt, the polling
\* that follows eventually returns True or False (or the run has ended).
C10_PollingReturns ==
    (Running /\ pc = "poll") ~> (login_result # "pending" \/ ~Running)

C10_Witness ==
    /\ pc = "login_ret"
    /\ polls = MaxPollRounds
    /\ login_result = "False"
    /\ round.outcomes = <<"absent", "absent", "absent">>

\* C11 (as claimed): close() releases only what start() acquired, and a
\* second close() releases nothing more: the browsing context and the
\* driver are never released more often than they were acquired.
C11_CloseIdempotent ==
    /\ released.context <= acquired.context
    /\ released.driver <= acquired.driver

\* C12: while start() has not completed, main() is before or in start()
\* (or has returned without a config): there has been no login check, no
\* navigation, no extraction, no output and no summary; a failed start()
\* ends the run there.
C12_FailedStartAborts ==
    /\ page # "obj" =>
            /\ pc \in {"config", "start", "done"}
            /\ login_result = "pending"
            /\ round = NoRound
            /\ polls = 0
            /\ navigated = <<>>
            /\ screenshots = 0
            /\ all_job_details = <<>>
            /\ files = <<>>
            /\ ~summary.printed
    /\ (pc = "start" /\ acquired.driver + acquired.context > 0) => exit = "raised"

C12_Witness ==
    /\ exit = "raised"
    /\ pc = "start"
    /\ playwright = "obj"
    /\ browser = "None"

\* C13 (as claimed): a run that has finished processing its targets and is
\* past the write step has written exactly one output file, whatever the
\* configured format.
C13_OneFilePerRun ==
    (login_result = "True" /\ pc \in {"summary", "close", "done"}) =>
        Len(files) = 1

\* the field names occurring in any record
KeysOf(records) == UNION {DOMAIN records[k] : k \in 1..Len(records)}

\* the place of a field name in alphabetical order
Rank(f) == CHOOSE n \in 1..Len(FieldOrder) : FieldOrder[n] = f

\* C14: at the write step no record of the result list has a key the csv
\* header lacks, so no row write fails; the csv file written has as header
\* the field names of all records, each once, in sorted order, and one row
\* per record with one cell per header: the record's value, or the empty
\* string where the record lacks the field.
C14_CsvHeaderIsSortedUnion ==
    /\ (Running /\ pc = "write") => ~CsvFails(all_job_details)
    /\ (Running /\ pc \in {"summary", "close"} /\ output_format = "csv") =>
            /\ Len(files) = 1
            /\ LET f == files[1]
                   h == f.header
               IN  /\ f.kind = "csv"
                   /\ {h[c] : c \in 1..Len(h)} = KeysOf(all_job_details)
                   /\ \A c, d \in 1..Len(h) : c < d => Rank(h[c]) < Rank(h[d])
                   /\ Len(f.rows) = Len(all_job_details)
                   /\ \A k \in 1..Len(f.rows) :
                        /\ Len(f.rows[k]) = Len(h)
                        /\ \A c \in 1..Len(h) :
                            IF h[c] \in DOMAIN all_job_details[k]
                            THEN f.rows[k][c] = all_job_details[k][h[c]]
                            ELSE f.rows[k][c] = <<>>

C14_Witness ==
    /\ Running
    /\ pc = "summary"
    /\ output_format = "csv"
    /\ Len(files) = 1
    /\ Len(all_job_details) = 3
    /\ "tags" \in DOMAIN all_job_details[1]
    /\ "error" \in DOMAIN all_job_details[2]
    /\ DOMAIN all_job_details[3] \cap {"tags", "error"} = {}

\* a text with a character that is no space
NonBlank(o) == o.kind = "text" /\ \E j \in 1..Len(o.text) : o.text[j] # " "

\* r is s without the spaces at its two ends, and is not empty
IsTrimOf(r, s) ==
    /\ r # <<>>
    /\ r[1] # " "
    /\ r[Len(r)] # " "
    /\ \E a \in 0..Len(s) :
        /\ a + Len(r) <= Len(s)
        /\ SubSeq(s, a + 1, a + Len(r)) = r
        /\ \A j \in 1..Len(s) : (j <= a \/ j > a + Len(r)) => s[j] = " "

\* the elements read before the first one whose read raises
ReadBeforeRaise(es) ==
    LET raising == {k \in 1..Len(es) : es[k].kind = "text_error"}
        stop == IF raising = {} THEN Len(es) + 1
                ELSE CHOOSE k \in raising : \A m \in raising : k <= m
    IN  SubSeq(es, 1, stop - 1)

\* the tags of a record, none when it has no tags key
TagsOf(r) == IF "tags" \in DOMAIN r THEN r.tags ELSE <<>>

\* an extraction has returned the record of the page it was served
Extracted == Running /\ pc = "append" /\ attempt.nav = "ok"

\* C15: the tags of a record are the trimmed texts of exactly those tag
\* elements, read before the first element whose read raises, whose text
\* is not blank: in document order, duplicates kept, none of them empty or
\* starting or ending with a space; none when the element query raises.
C15_TagsTrimmedInOrder ==
    Extracted =>
        LET t == attempt.page.tags
            res == TagsOf(job_details)
        IN  IF t.kind = "query_error" THEN res = <<>>
            ELSE LET kept == SelectSeq(ReadBeforeRaise(t.elems), NonBlank) IN
                 /\ Len(res) = Len(kept)
                 /\ \A k \in 1..Len(res) : IsTrimOf(res[k], kept[k].text)

C15_Witness ==
    /\ Extracted
    /\ attempt.page.tags = TagElements(<<Text(<<" ", "b", " ">>), TextError>>)
    /\ TagsOf(job_details) = << <<"b">> >>

\* C16: the summary's successes are the records without an error, its
\* failures the records with one (as many as screenshots were taken), and
\* together they are the number of targets.
C16_SummaryCounts ==
    (summary.printed /\ exit \in {"running", "returned"}) =>
        /\ summary.success
            = Len(SelectSeq(all_job_details, LAMBDA r : "error" \notin DOMAIN r))
        /\ summary.failed
            = Len(SelectSeq(all_job_details, LAMBDA r : "error" \in DOMAIN r))
        /\ summary.failed = screenshots
        /\ summary.success + summary.failed = Len(job_links)

C16_Witness ==
    /\ summary.printed
    /\ summary.success = 2
    /\ summary.failed = 1
    /\ exit = "returned"

\* C17: a target is navigated to only with start() completed and
\* ensure_logged_in having returned True; close() ends the run, and after
\* it there is no further navigation, probe, extraction or screenshot.
C17_SessionGatesExtraction ==
    /\ [](navigated # <<>> => (page = "obj" /\ login_result = "True"))
    /\ [](pc \in {"extract", "append", "sleep"} => login_result = "True")
    /\ [](close_calls > 0 => (exit = "returned" /\ pc = "done"))
    /\ [][close_calls > 0 =>
            UNCHANGED <<navigated, screenshots, attempt, round, polls,
                        job_details>>]_vars

C17_Witness ==
    /\ close_calls = 1
    /\ Len(navigated) = 2
    /\ screenshots = 1
    /\ login_result = "True"

\* C18: the navigation to a target begins with the records of all targets
\* before it appended and one delay slept after each of them; a delay
\* follows every append, the last one included.
C18_PacedOneAtATime ==
    /\ Len(navigated) <= delays + 1
    /\ Running =>
            /\ pc = "extract" =>
                    /\ Len(navigated) = i - 1
                    /\ Len(all_job_details) = i - 1
                    /\ delays = i - 1
            /\ pc = "append" =>
                    /\ Len(navigated) = i
                    /\ Len(all_job_details) = i - 1
                    /\ delays = i - 1
            /\ pc = "sleep" =>
                    /\ Len(navigated) = i
                    /\ Len(all_job_details) = i
                    /\ delays = i - 1
            /\ pc \in {"write", "summary", "close"} =>
                    /\ Len(navigated) = Len(job_links)
                    /\ delays = Len(job_links)

C18_Witness ==
    /\ Running
    /\ pc = "write"
    /\ delays = 3
    /\ "error" \in DOMAIN all_job_details[3]

\* C19: in the record of a page, every field holds what its own read
\* gives (the trimmed text, or the empty string when the query or the text
\* read raises, the element is absent or its text is None or blank),
\* whatever the reads of the other fields did, and the record has no error.
C19_FieldReadsIsolated ==
    Extracted =>
        /\ "error" \notin DOMAIN job_details
        /\ \A s \in Selectors :
            LET o == attempt.page.fields[s] IN
            IF NonBlank(o) THEN IsTrimOf(job_details[s], o.text)
            ELSE job_details[s] = <<>>

C19_Witness ==
    /\ Extracted
    /\ attempt.page.fields["title"] = QueryError
    /\ attempt.page.fields["salary"] = QueryError
    /\ job_details.title = <<>>
    /\ job_details.city = <<"v">>

\* C20: on a page where the wait for '.job-banner' fails, the extraction
\* goes on: every field and the tags are read, no screenshot is taken and
\* the record returned has no error.
C20_MissingLandmarkGoesOn ==
    (Extracted /\ ~attempt.page.landmark) =>
        /\ "error" \notin DOMAIN job_details
        /\ Selectors \subseteq DOMAIN job_details
        /\ screenshots = 0
        /\ attempt.page.tags.kind = "elements" =>
                ("tags" \in DOMAIN job_details
                    <=> \E k \in 1..Len(attempt.page.tags.elems) :
                            NonBlank(attempt.page.tags.elems[k]))

C20_Witness ==
    /\ Extracted
    /\ ~attempt.page.landmark
    /\ job_details.title = <<"v">>
    /\ job_details.salary = <<>>
    /\ TagsOf(job_details) = << <<"a">> >>

=============================================================================
